---- MODULE Spec2Model ----
(***************************************************************************)
(* Battery telemetry analytics: the Equivalent Full Cycle counts of        *)
(* cycles.py (calculate_cycles, compute_all_cycles) and the report run of  *)
(* pp.py (to_ist, detect_anomalies, call_groq_summary, main).              *)
(*                                                                         *)
(* Units.  Timestamps are whole days in cycles.py and 2-hour bucket        *)
(* numbers in pp.py.  A missing timestamp (pandas NaT) is the empty        *)
(* sequence <<>>, a present one is <<t>>; a soc_drop that pandas leaves    *)
(* NaN is <<>>, a defined one is <<d>>.  In cycles.py the state of charge  *)
(* is counted in steps of 0.04 percentage points (2500 = 100 %) and cycle  *)
(* counts in steps of 0.0001 cycle, so that round(x, 3) is not the         *)
(* identity.  In pp.py the state of charge is in whole percentage points.  *)
(***************************************************************************)
EXTENDS Integers, Sequences, FiniteSets, TLC

\* Largest number of rows of the frame handed to compute_all_cycles.
MaxRows == 3

\* Largest number of 2-hour buckets of the frame handed to detect_anomalies.
MaxBuckets == 6

\* Largest number of 2-hour buckets load_2h_data returns to main.
MainBuckets == 2

\* pd.Timedelta(hours=24), pd.Timedelta(days=7), pd.Timedelta(days=30), in days.
Window24h == 1
Window7d == 7
Window30d == 30

\* g["soc_drop"] < -15
HardThreshold == -15

\* The loop bound one too high: range(6).
MaxAttemptsOffByOne == 5 + 1

\* for attempt in range(5)
MaxAttempts == 5

VARIABLES
    df,        \* cycles.py: the frame compute_all_cycles is called with
    todo,      \* cycles.py: the batteries the for loop has not reached yet
    results,   \* cycles.py: the rows appended to results so far
    cpc,       \* cycles.py: "loop" inside compute_all_cycles, "done" after return
    run,       \* cycles.py: 1 for the first call, 2 for the call on reordered rows
    first,     \* cycles.py: the rows the first call returned
    ppc,       \* pp.py: where main is: "load", "groq", "detect", "done", "exit" ("idle": not run)
    df_2h,     \* pp.py: the 2-hour frame load_2h_data returned
    GROQ_API_KEY, \* pp.py: whether the environment sets GROQ_API_KEY
    attempt,   \* pp.py: the loop variable of call_groq_summary
    requests,  \* pp.py: the HTTP requests call_groq_summary has issued
    summary,   \* pp.py: what call_groq_summary returned ("" before it returns)
    anomalies  \* pp.py: what detect_anomalies returned

cvars == <<df, todo, results, cpc, run, first>>
pvars == <<ppc, df_2h, GROQ_API_KEY, attempt, requests, summary, anomalies>>
vars == <<cvars, pvars>>

NaT == <<>>

----------------------------------------------------------------------------
(* Generic helpers *)

Max0(a, b) == IF a >= b THEN a ELSE b

Range(s) == {s[i] : i \in 1..Len(s)}

\* Order of two timestamps under sort_values: ascending, NaT last.
TsLeq(a, b) == b = NaT \/ (a # NaT /\ a[1] <= b[1])

\* The arrangements of the rows of f at the indices in idx that are ascending
\* in its keys (one timestamp per row): at each place comes a row whose key is
\* least among the rows still to come.
RECURSIVE Arrangements(_, _, _)
Arrangements(f, idx, keys) ==
    IF idx = {} THEN {<<>>}
    ELSE UNION {{<<f[i]>> \o t : t \in Arrangements(f, idx \ {i}, keys)} :
                i \in {j \in idx : \A k \in idx : TsLeq(keys[j], keys[k])}}

----------------------------------------------------------------------------
(* cycles.py *)

\* The samples the frames are built from.  Battery 1 has samples on day 0,
\* 25 and 32 (seen from day 32: day 25 is exactly 7 days back and outside 24
\* hours, day 0 is outside 30 days; seen from day 25: day 0 is inside 30 days
\* and outside 7); battery 2 is there to separate the batteries' own latest
\* timestamps.
Samples ==
    {[battery_id |-> 1, ts |-> <<t>>, soc |-> v] : t \in {0, 25, 32}, v \in {0, 1, 2500}}
    \cup {[battery_id |-> 2, ts |-> <<32>>, soc |-> 0]}

\* A sample whose timestamp is missing.
MalformedSample == [battery_id |-> 1, ts |-> NaT, soc |-> 0]

\* The frames of at most MaxRows rows over the samples in S, in any order.
CycleFrames(S) == UNION {[1..n -> S] : n \in 0..MaxRows}

\* df["battery_id"].unique(): the batteries in order of first appearance.
RECURSIVE Unique(_)
Unique(f) ==
    IF f = <<>> THEN <<>>
    ELSE LET rest == Unique(SubSeq(f, 1, Len(f) - 1))
             b == f[Len(f)].battery_id
         IN  IF b \in Range(rest) THEN rest ELSE Append(rest, b)

\* df[df["battery_id"] == battery]
BatteryFrame(f, battery) == SelectSeq(f, LAMBDA r : r.battery_id = battery)

\* The latest timestamp of the whole frame instead of the battery's own.
TsMaxWholeFrame(bdf) ==
    LET ts == {df[i].ts[1] : i \in {j \in 1..Len(df) : df[j].ts # NaT}}
    IN  IF ts = {} THEN NaT ELSE <<CHOOSE m \in ts : \A t \in ts : t <= m>>

\* bdf["ts"].max(): NaT is skipped; NaT when nothing is left.
TsMax(bdf) ==
    LET ts == {bdf[i].ts[1] : i \in {j \in 1..Len(bdf) : bdf[j].ts # NaT}}
    IN  IF ts = {} THEN NaT ELSE <<CHOOSE m \in ts : \A t \in ts : t <= m>>

\* bdf[bdf["ts"] >= (bdf["ts"].max() - W)]: a comparison with NaT is False.
WindowFrame(bdf, W) ==
    LET m == TsMax(bdf)
    IN  IF m = NaT THEN <<>>
        ELSE SelectSeq(bdf, LAMBDA r : r.ts # NaT /\ r.ts[1] >= m[1] - W)

\* The rows left in the order they came in.
SortValuesTsSkipped(f) == {f}

\* df.sort_values("ts"): pandas' default kind is quicksort, which is not
\* stable, so every ascending arrangement of the rows is a possible outcome.
SortValuesTs(f) == Arrangements(f, 1..Len(f), [i \in 1..Len(f) |-> f[i].ts])

\* The drop of row i with shift(1, fill_value=100): row 1 drops from 100 %.
DropFilled(s, i) == Max0((IF i = 1 THEN 2500 ELSE s[i - 1].soc) - s[i].soc, 0)

\* (prev_soc - battery_soc_pct).clip(lower=0) of row i; NaN in row 1, which
\* sum() skips.
Drop(s, i) == IF i = 1 THEN 0 ELSE Max0(s[i - 1].soc - s[i].soc, 0)

RECURSIVE DropSum(_, _)
DropSum(s, n) == IF n = 0 THEN 0 ELSE DropSum(s, n - 1) + Drop(s, n)

\* calculate_cycles on the rows as sorted: df["drop"].sum() / 100.  The sum
\* is in steps of 0.04 points, the result in steps of 0.0001 cycle.
CalculateCycles(s) == 4 * DropSum(s, Len(s))

\* round(x, 3), x >= 0 in steps of 0.0001: no x here ends in 5.
Round3(x) == ((x + 5) \div 10) * 10

\* calculate_cycles(w) if len(w) > 1 else 0
Guarded(w, s) == IF Len(w) > 1 THEN CalculateCycles(s) ELSE 0

\* pp.py is not run.
IdleReport ==
    /\ ppc = "idle"
    /\ df_2h = <<>>
    /\ GROQ_API_KEY = FALSE
    /\ attempt = 0
    /\ requests = 0
    /\ summary = ""
    /\ anomalies = <<>>

\* compute_all_cycles is called with frame f.
Called(f) ==
    /\ df = f
    /\ todo = Unique(f)
    /\ results = <<>>
    /\ cpc = "loop"
    /\ run = 1
    /\ first = {}
    /\ IdleReport

\* compute_all_cycles on samples that all have a timestamp.
InitCycles == \E f \in CycleFrames(Samples) : Called(f)

\* compute_all_cycles on samples of which some have no timestamp.
InitMalformed == \E f \in CycleFrames(Samples \cup {MalformedSample}) : Called(f)

\* One iteration of the for loop of compute_all_cycles.  The four sorts are
\* runs of one deterministic algorithm: equal inputs come out equal.
ComputeBattery ==
    /\ cpc = "loop"
    /\ todo # <<>>
    /\ LET battery == Head(todo)
           bdf == BatteryFrame(df, battery)
           df_24h == WindowFrame(bdf, Window24h)
           df_7d == WindowFrame(bdf, Window7d)
           df_30d == WindowFrame(bdf, Window30d)
       IN  \E s24 \in SortValuesTs(df_24h), s7 \in SortValuesTs(df_7d),
              s30 \in SortValuesTs(df_30d), sT \in SortValuesTs(bdf) :
               /\ df_24h = df_7d => s24 = s7
               /\ df_24h = df_30d => s24 = s30
               /\ df_24h = bdf => s24 = sT
               /\ df_7d = df_30d => s7 = s30
               /\ df_7d = bdf => s7 = sT
               /\ df_30d = bdf => s30 = sT
               /\ results' = Append(results,
                      [battery_id |-> battery,
                       cycles_last_24h |-> Round3(Guarded(df_24h, s24)),
                       cycles_last_7d |-> Round3(Guarded(df_7d, s7)),
                       cycles_last_30d |-> Round3(Guarded(df_30d, s30)),
                       total_cycles |-> Round3(CalculateCycles(sT))])
    /\ todo' = Tail(todo)
    /\ UNCHANGED <<df, cpc, run, first, pvars>>

\* return pd.DataFrame(results)
ReturnFrame ==
    /\ cpc = "loop"
    /\ todo = <<>>
    /\ cpc' = "done"
    /\ UNCHANGED <<df, todo, results, run, first, pvars>>

\* A second call of compute_all_cycles, on the same rows in another order.
CallReordered ==
    /\ cpc = "done"
    /\ run = 1
    /\ \E g \in Arrangements(df, 1..Len(df), [i \in 1..Len(df) |-> NaT]) :
           /\ df' = g
           /\ todo' = Unique(g)
    /\ first' = Range(results)
    /\ results' = <<>>
    /\ cpc' = "loop"
    /\ run' = 2
    /\ UNCHANGED pvars

NextCycles == ComputeBattery \/ ReturnFrame \/ CallReordered

SpecCycles == InitCycles /\ [][NextCycles]_vars

SpecMalformed == InitMalformed /\ [][NextCycles]_vars

----------------------------------------------------------------------------
(* pp.py *)

Deltas == {-20, -15, 1, 2}

\* The SOC series of n buckets that start at 50 %, change by one of Deltas
\* from bucket to bucket and stay within 0..100.
RECURSIVE SocSeries(_)
SocSeries(n) ==
    IF n = 0 THEN {<<>>}
    ELSE IF n = 1 THEN {<<50>>}
    ELSE {t \in {Append(s, s[n - 1] + d) : s \in SocSeries(n - 1), d \in Deltas} :
            t[n] \in 0..100}

\* The rows of one battery as the query returns them: bucket i at time i.
BucketRows(b, socs) ==
    [i \in 1..Len(socs) |->
        [battery_id |-> b, ts |-> [ok |-> TRUE, at |-> i], soc |-> socs[i]]]

Reverse(s) == [i \in 1..Len(s) |-> s[Len(s) + 1 - i]]

\* The frames of at most n buckets over batteries 1 and 2, in the order of
\* the query (ORDER BY battery_id, ts) and in the opposite order.
RawFrames(n) ==
    UNION {{f, Reverse(f)} :
           f \in UNION {{BucketRows(1, a) \o BucketRows(2, b) :
                          a \in SocSeries(x[1]), b \in SocSeries(x[2])} :
                        x \in {y \in (0..n) \X (0..n) : y[1] + y[2] <= n}}}

\* A bucket of battery 1 whose timestamp cannot be parsed.
BadRow == [battery_id |-> 1, ts |-> [ok |-> FALSE, at |-> 0], soc |-> 30]

\* to_ist on one value: pd.to_datetime(ts, errors="coerce") turns what it
\* cannot parse into NaT; tz_localize/tz_convert keep the instant.
ToIst(ts) == IF ts.ok THEN <<ts.at>> ELSE NaT

\* df["ts"] = to_ist(df["ts"])
ToIstFrame(f) == [i \in 1..Len(f) |-> [f[i] EXCEPT !.ts = ToIst(f[i].ts)]]

\* Order of two rows under sort_values(["battery_id", "ts"]).
RowLeq(a, b) ==
    \/ a.battery_id < b.battery_id
    \/ a.battery_id = b.battery_id /\ TsLeq(a.ts, b.ts)

\* df.sort_values(["battery_id", "ts"]): a sort on several columns is
\* stable.  Row i comes behind the rows that sort before it and the rows
\* equal to it that stand before it in f.
SortValues(f) ==
    LET n == Len(f)
        before(j, i) ==
            /\ RowLeq(f[j], f[i])
            /\ RowLeq(f[i], f[j]) => j < i
        place(i) == Cardinality({j \in 1..n : before(j, i)}) + 1
    IN  [k \in 1..n |-> f[CHOOSE i \in 1..n : place(i) = k]]

\* A diff taken as previous minus current.
DiffPrevMinusCur(prev, cur) == prev - cur

\* Series.diff() on two consecutive values of a group.
Diff(prev, cur) == cur - prev

\* df.groupby("battery_id")["soc"].diff() at row i of the sorted frame: NaN
\* in the first row of each battery.
GroupDiff(s, i) ==
    IF i = 1 \/ s[i - 1].battery_id # s[i].battery_id THEN <<>>
    ELSE <<Diff(s[i - 1].soc, s[i].soc)>>

\* The sorted copy with its soc_drop column.
WithSocDrop(f) ==
    LET s == SortValues(f)
    IN  [i \in 1..Len(s) |->
            [battery_id |-> s[i].battery_id, ts |-> s[i].ts, soc |-> s[i].soc,
             soc_drop |-> GroupDiff(s, i)]]

\* The defined soc_drop values of the first n rows of g.
RECURSIVE DropNaTo(_, _)
DropNaTo(g, n) == IF n = 0 THEN <<>> ELSE DropNaTo(g, n - 1) \o g[n].soc_drop

\* g["soc_drop"].dropna()
DropNa(g) == DropNaTo(g, Len(g))

RECURSIVE SumTo(_, _)
SumTo(s, n) == IF n = 0 THEN 0 ELSE SumTo(s, n - 1) + s[n]

Sum(s) == SumTo(s, Len(s))

Squares(s) == [i \in 1..Len(s) |-> s[i] * s[i]]

\* The hard threshold read as a discharge of more than 15 points under the
\* convention previous minus current.
BelowHardFlipped(d) == d # <<>> /\ d[1] > 15

\* The hard threshold with <= for <.
BelowHardInclusive(d) == d # <<>> /\ d[1] <= -15

\* soc_drop < -15; a comparison with NaN is False.
BelowHard(d) == d # <<>> /\ d[1] < HardThreshold

\* The adaptive threshold without the factor 1.5: mean - std.
BelowAdaptiveOneStd(d, drops) ==
    LET n == Len(drops)
        S == Sum(drops)
        Q == Sum(Squares(drops))
    IN  /\ d # <<>>
        /\ n > 1
        /\ S - n * d[1] > 0
        /\ (n - 1) * (S - n * d[1]) * (S - n * d[1]) > n * (n * Q - S * S)

\* soc_drop < drops.mean() - 1.5 * drops.std(), in exact arithmetic.  With
\* n drops of sum S and sum of squares Q, mean = S/n and the sample variance
\* (ddof = 1) is (n*Q - S*S) / (n*(n-1)); for n = 1 std() is NaN and the
\* comparison False.  mean - d > 1.5*std iff S - n*d > 0 and
\* 4*(n-1)*(S - n*d)^2 > 9*n*(n*Q - S*S).
BelowAdaptive(d, drops) ==
    LET n == Len(drops)
        S == Sum(drops)
        Q == Sum(Squares(drops))
    IN  /\ d # <<>>
        /\ n > 1
        /\ S - n * d[1] > 0
        /\ 4 * (n - 1) * (S - n * d[1]) * (S - n * d[1]) > 9 * n * (n * Q - S * S)

\* g[(g["soc_drop"] < -15) | (g["soc_drop"] < threshold)]
Flagged(d, drops) == BelowHard(d) \/ BelowAdaptive(d, drops)

\* One (b, g, g_anom) of detect_anomalies; pd.DataFrame() when the group has
\* no defined drop.
GroupAnomalies(b, g) ==
    LET drops == DropNa(g)
    IN  [b |-> b, g |-> g,
         g_anom |-> IF Len(drops) = 0 THEN <<>>
                    ELSE SelectSeq(g, LAMBDA r : Flagged(r.soc_drop, drops))]

\* detect_anomalies(df): one entry per battery, in the order of groupby.
DetectAnomaliesOf(f) ==
    LET d == WithSocDrop(f)
        ids == {d[i].battery_id : i \in 1..Len(d)}
        entry(b) == GroupAnomalies(b, SelectSeq(d, LAMBDA r : r.battery_id = b))
    IN  IF ids = {} THEN <<>>
        ELSE IF ids = {1, 2} THEN <<entry(1), entry(2)>>
        ELSE <<entry(CHOOSE b \in ids : TRUE)>>

IdleCycles ==
    /\ df = <<>>
    /\ todo = <<>>
    /\ results = <<>>
    /\ cpc = "idle"
    /\ run = 1
    /\ first = {}

\* detect_anomalies as a function of its argument.
InitDetect ==
    /\ IdleCycles
    /\ ppc = "detect"
    /\ df_2h \in {ToIstFrame(f) : f \in RawFrames(MaxBuckets)}
    /\ GROQ_API_KEY = FALSE
    /\ attempt = 0
    /\ requests = 0
    /\ summary = ""
    /\ anomalies = <<>>

\* main as it starts.
InitMain ==
    /\ IdleCycles
    /\ ppc = "load"
    /\ df_2h = <<>>
    /\ GROQ_API_KEY \in BOOLEAN
    /\ attempt = 0
    /\ requests = 0
    /\ summary = ""
    /\ anomalies = <<>>

\* df_2h = load_2h_data(): the query's rows with ts through to_ist.
Load2hData ==
    /\ ppc = "load"
    /\ \E f \in RawFrames(MainBuckets), bad \in BOOLEAN :
           df_2h' = ToIstFrame(IF bad THEN Append(f, BadRow) ELSE f)
    /\ ppc' = "groq"
    /\ UNCHANGED <<GROQ_API_KEY, attempt, requests, summary, anomalies, cvars>>

\* load_2h_data: any exception ends the program through sys.exit.
Load2hDataFails ==
    /\ ppc = "load"
    /\ ppc' = "exit"
    /\ UNCHANGED <<df_2h, GROQ_API_KEY, attempt, requests, summary, anomalies, cvars>>

\* call_groq_summary returns s to main, which goes on to detect_anomalies.
GroqReturn(s) ==
    /\ summary' = s
    /\ ppc' = "detect"

\* if not GROQ_API_KEY: return "[Summary unavailable - missing API key]"
GroqNoKey ==
    /\ ppc = "groq"
    /\ ~GROQ_API_KEY
    /\ GroqReturn("[Summary unavailable - missing API key]")
    /\ UNCHANGED <<df_2h, GROQ_API_KEY, attempt, requests, anomalies, cvars>>

\* The next value of the loop variable after an iteration that did not
\* return.
NextAttempt(a) == a + 1

\* An iteration is entered: requests.post is called.
Posting ==
    /\ ppc = "groq"
    /\ GROQ_API_KEY
    /\ attempt < MaxAttempts
    /\ requests' = requests + 1

\* requests.post raises or times out, r.json() raises, or the reply has
\* not the shape the code reads: except Exception, sleep, next iteration.
GroqException ==
    /\ Posting
    /\ attempt' = NextAttempt(attempt)
    /\ UNCHANGED <<ppc, df_2h, GROQ_API_KEY, summary, anomalies, cvars>>

\* data["error"]["code"] == "rate_limit_exceeded": sleep, continue.
GroqRateLimit ==
    /\ Posting
    /\ attempt' = NextAttempt(attempt)
    /\ UNCHANGED <<ppc, df_2h, GROQ_API_KEY, summary, anomalies, cvars>>

\* An error reply with another code and no choices: return "[Summary unavailable]".
GroqOtherError ==
    /\ Posting
    /\ GroqReturn("[Summary unavailable]")
    /\ UNCHANGED <<df_2h, GROQ_API_KEY, attempt, anomalies, cvars>>

\* A reply with neither error nor choices: return "[Summary unavailable]".
GroqUnknownReply ==
    /\ Posting
    /\ GroqReturn("[Summary unavailable]")
    /\ UNCHANGED <<df_2h, GROQ_API_KEY, attempt, anomalies, cvars>>

\* A reply with choices: return sanitize_for_pdf(out).
GroqSuccess ==
    /\ Posting
    /\ GroqReturn("text")
    /\ UNCHANGED <<df_2h, GROQ_API_KEY, attempt, anomalies, cvars>>

\* The loop ends after the last iteration: return "[Summary unavailable]".
GroqExhausted ==
    /\ ppc = "groq"
    /\ GROQ_API_KEY
    /\ attempt >= MaxAttempts
    /\ GroqReturn("[Summary unavailable]")
    /\ UNCHANGED <<df_2h, GROQ_API_KEY, attempt, requests, anomalies, cvars>>

\* anomalies = detect_anomalies(df_2h)
DetectAnomalies ==
    /\ ppc = "detect"
    /\ anomalies' = DetectAnomaliesOf(df_2h)
    /\ ppc' = "done"
    /\ UNCHANGED <<df_2h, GROQ_API_KEY, attempt, requests, summary, cvars>>

NextDetect == DetectAnomalies

NextMain ==
    \/ Load2hData
    \/ Load2hDataFails
    \/ GroqNoKey
    \/ GroqException
    \/ GroqRateLimit
    \/ GroqOtherError
    \/ GroqUnknownReply
    \/ GroqSuccess
    \/ GroqExhausted
    \/ DetectAnomalies

SpecDetect == InitDetect /\ [][NextDetect]_vars

SpecMain == InitMain /\ [][NextMain]_vars

\* main runs on: every step it can take is taken, and every HTTP request
\* ends (timeout=20).
LiveMain == SpecMain /\ WF_vars(NextMain)

----------------------------------------------------------------------------
(* Properties of compute_all_cycles *)

Rows == Range(results)

\* The places in df of the samples of battery b.
SamplesOf(b) == {i \in 1..Len(df) : df[i].battery_id = b}

\* The samples of battery b with a timestamp no earlier than W before the
\* latest timestamp of that battery.
InWindow(b, W) ==
    {i \in SamplesOf(b) :
        /\ df[i].ts # NaT
        /\ \A j \in SamplesOf(b) : df[j].ts # NaT => df[i].ts[1] >= df[j].ts[1] - W}

\* The ways to take the samples at the places in I in ascending timestamp
\* order (a sample without timestamp after the others).
AscendingOrders(I) ==
    {p \in [1..Cardinality(I) -> I] :
        /\ \A x, y \in 1..Cardinality(I) : p[x] = p[y] => x = y
        /\ \A x \in 1..(Cardinality(I) - 1) : TsLeq(df[p[x]].ts, df[p[x + 1]].ts)}

\* The sum over the first n consecutive pairs of max(0, soc[i-1] - soc[i]).
RECURSIVE Discharged(_, _)
Discharged(p, n) ==
    IF n <= 1 THEN 0
    ELSE Discharged(p, n - 1)
         + (IF df[p[n - 1]].soc > df[p[n]].soc THEN df[p[n - 1]].soc - df[p[n]].soc ELSE 0)

\* The cycle counts (in 0.0001 cycle) the samples at I give: the discharged
\* points (in 0.04 point) over 100.
Cycles(I) == {4 * Discharged(p, Cardinality(I)) : p \in AscendingOrders(I)}

\* c is x rounded to 3 decimal places (both in 0.0001).
Rounds(c, x) == c % 10 = 0 /\ c - x < 5 /\ x - c < 5

OneRowPerBattery ==
    /\ {r.battery_id : r \in Rows} = {df[i].battery_id : i \in 1..Len(df)}
    /\ Len(results) = Cardinality(Rows)
    /\ \A r, q \in Rows : r.battery_id = q.battery_id => r = q

\* C4 as claimed: each count is the sum of the clamped drops of the window's
\* samples in ascending timestamp order, over 100.
C4_CountIsDischargeOver100 ==
    cpc = "done" =>
        /\ OneRowPerBattery
        /\ \A r \in Rows :
               /\ r.cycles_last_24h \in Cycles(InWindow(r.battery_id, Window24h))
               /\ r.cycles_last_7d \in Cycles(InWindow(r.battery_id, Window7d))
               /\ r.cycles_last_30d \in Cycles(InWindow(r.battery_id, Window30d))
               /\ r.total_cycles \in Cycles(SamplesOf(r.battery_id))

\* C4 as amended: each count is that sum over 100, rounded to 3 decimal
\* places.
C4_CountIsRoundedDischargeOver100 ==
    cpc = "done" =>
        /\ OneRowPerBattery
        /\ \A r \in Rows :
               /\ \E x \in Cycles(InWindow(r.battery_id, Window24h)) : Rounds(r.cycles_last_24h, x)
               /\ \E x \in Cycles(InWindow(r.battery_id, Window7d)) : Rounds(r.cycles_last_7d, x)
               /\ \E x \in Cycles(InWindow(r.battery_id, Window30d)) : Rounds(r.cycles_last_30d, x)
               /\ \E x \in Cycles(SamplesOf(r.battery_id)) : Rounds(r.total_cycles, x)

\* C4 happens: battery 1 goes from 100 % on day 0 to 0 % on day 25, its own
\* latest day, while battery 2 has a sample on day 32: its 30 days hold
\* exactly 1.0 cycle and its 7 days none.
C4_Witness ==
    /\ cpc = "done"
    /\ \E i \in 1..Len(df) : df[i].battery_id = 2
    /\ \E r \in Rows :
           /\ r.battery_id = 1
           /\ SamplesOf(1) = InWindow(1, Window30d)
           /\ r.cycles_last_30d = 10000
           /\ r.cycles_last_7d = 0

C6_InsufficientDataIsZero ==
    /\ cpc \in {"loop", "done"}
    /\ cpc = "done" =>
        /\ OneRowPerBattery
        /\ \A r \in Rows :
               /\ Cardinality(SamplesOf(r.battery_id)) = 1 =>
                      /\ r.cycles_last_24h = 0
                      /\ r.cycles_last_7d = 0
                      /\ r.cycles_last_30d = 0
                      /\ r.total_cycles = 0
               /\ Cardinality(InWindow(r.battery_id, Window24h)) < 2 => r.cycles_last_24h = 0
               /\ Cardinality(InWindow(r.battery_id, Window7d)) < 2 => r.cycles_last_7d = 0
               /\ Cardinality(InWindow(r.battery_id, Window30d)) < 2 => r.cycles_last_30d = 0

\* C6 happens: battery 2 has a single sample and four zeros, battery 1 has a
\* full cycle in all but has a single sample and a zero in its last 24 hours.
C6_Witness ==
    /\ cpc = "done"
    /\ \E r, q \in Rows :
           /\ Cardinality(SamplesOf(r.battery_id)) = 1
           /\ r.total_cycles = 0
           /\ Cardinality(InWindow(q.battery_id, Window24h)) = 1
           /\ q.cycles_last_24h = 0
           /\ q.total_cycles = 10000

\* C7: compute_all_cycles returns no counts for a frame that holds a sample
\* without timestamp (it fails with an error instead).
C7_MissingTimestampIsAnError ==
    cpc = "done" => \A i \in 1..Len(df) : df[i].ts # NaT

\* No two samples of one battery have the same timestamp (or both none).
TimestampsDistinct ==
    \A i, j \in 1..Len(df) :
        (i # j /\ df[i].battery_id = df[j].battery_id) => df[i].ts # df[j].ts

\* C10 as claimed: the call on the reordered rows returns the rows the first
\* call returned.
C10_OrderIndependent ==
    (cpc = "done" /\ run = 2) => Rows = first

\* C10 as amended: the call on the reordered rows returns the rows the first
\* call returned when no two samples of a battery have equal timestamps.
C10_OrderIndependentWithoutTies ==
    (cpc = "done" /\ run = 2 /\ TimestampsDistinct) => Rows = first

\* C10 happens: the second call got battery 1's samples latest first, none
\* with equal timestamps, and returned a row with a full cycle.
C10_Witness ==
    /\ cpc = "done"
    /\ run = 2
    /\ TimestampsDistinct
    /\ Len(df) >= 2
    /\ df[1].battery_id = 1 /\ df[2].battery_id = 1
    /\ df[1].ts # NaT /\ df[2].ts # NaT
    /\ df[1].ts[1] > df[2].ts[1]
    /\ Rows = first
    /\ \E r \in Rows : r.total_cycles = 10000

----------------------------------------------------------------------------
(* Properties of detect_anomalies *)

Entries == Range(anomalies)

\* The buckets of battery b in the frame detect_anomalies was given.
Buckets(b) == {r \in Range(df_2h) : r.battery_id = b}

\* The bucket of the same battery just before r in time, if any.
Previous(r) ==
    {q \in Buckets(r.battery_id) :
        /\ q.ts[1] < r.ts[1]
        /\ \A x \in Buckets(r.battery_id) : x.ts[1] < r.ts[1] => x.ts[1] <= q.ts[1]}

\* The row of the frame a row of the result was made from.
Bare(r) == [battery_id |-> r.battery_id, ts |-> r.ts, soc |-> r.soc]

\* C1: a bucket whose soc_drop is below -15 is in its battery's anomaly set,
\* whatever the other buckets of the battery are, also when it is the
\* battery's only defined drop.
C1_HardThresholdAlwaysFlags ==
    ppc = "done" =>
        \A e \in Entries : \A r \in Range(e.g) :
            (r.soc_drop # <<>> /\ r.soc_drop[1] < -15) => r \in Range(e.g_anom)

\* C1 happens: a battery of two buckets whose only drop is -20 has the
\* second bucket in its anomaly set.
C1_Witness ==
    /\ ppc = "done"
    /\ \E e \in Entries :
           /\ Len(e.g) = 2
           /\ e.g[2].soc_drop = <<-20>>
           /\ e.g_anom = <<e.g[2]>>

\* C2 as claimed: a bucket whose SOC is higher than the SOC of the previous
\* bucket of its battery is never in the anomaly set.
C2_ChargeIncreaseNeverFlagged ==
    ppc = "done" =>
        \A e \in Entries : \A r \in Range(e.g) :
            (\E q \in Previous(r) : r.soc > q.soc) => r \notin Range(e.g_anom)

\* C2 as amended: a bucket whose SOC is higher than the SOC of the previous
\* bucket is in the anomaly set only when its battery has at least 4 defined
\* drops and its soc_drop is below their mean; the hard threshold never
\* flags it.
C2_ChargeIncreaseFlaggedOnlyBelowMean ==
    ppc = "done" =>
        \A e \in Entries : \A r \in Range(e.g) :
            ((\E q \in Previous(r) : r.soc > q.soc) /\ r \in Range(e.g_anom)) =>
                LET drops == DropNa(e.g)
                IN  /\ Len(drops) >= 4
                    /\ Len(drops) * r.soc_drop[1] < Sum(drops)
                    /\ r.soc_drop[1] > 0

\* C2 happens: a bucket with a charge increase is in the anomaly set of its
\* battery, and another charge increase of the same battery is not.
C2_Witness ==
    /\ ppc = "done"
    /\ \E e \in Entries : \E r, x \in Range(e.g) :
           /\ \E q \in Previous(r) : r.soc > q.soc
           /\ r \in Range(e.g_anom)
           /\ \E q \in Previous(x) : x.soc > q.soc
           /\ x \notin Range(e.g_anom)

\* The entries of the result are the batteries of the frame, each with all
\* its buckets.
EntriesMatchFrame ==
    /\ {e.b : e \in Entries} = {r.battery_id : r \in Range(df_2h)}
    /\ \A e \in Entries :
           /\ {Bare(r) : r \in Range(e.g)} = Buckets(e.b)
           /\ Len(e.g) = Cardinality(Buckets(e.b))

\* C3 as claimed: the soc_drop of every bucket that has a previous bucket is
\* the previous SOC minus its own SOC.
C3_DropIsPreviousMinusCurrent ==
    ppc = "done" =>
        /\ EntriesMatchFrame
        /\ \A e \in Entries : \A r \in Range(e.g) :
               \A q \in Previous(Bare(r)) : r.soc_drop = <<q.soc - r.soc>>

\* C3 as amended: the soc_drop of every bucket that has a previous bucket
\* (in ascending timestamp order, within its battery) is its own SOC minus
\* the previous SOC, so that a decrease of charge gives a negative soc_drop;
\* the first bucket of a battery has none.
C3_DropIsCurrentMinusPrevious ==
    ppc = "done" =>
        /\ EntriesMatchFrame
        /\ \A e \in Entries : \A r \in Range(e.g) :
               /\ \A q \in Previous(Bare(r)) : r.soc_drop = <<r.soc - q.soc>>
               /\ Previous(Bare(r)) = {} => r.soc_drop = <<>>

\* C3 happens: the frame came with a battery's later bucket first, and the
\* result has a bucket with a decrease of charge.
C3_Witness ==
    /\ ppc = "done"
    /\ Len(df_2h) >= 2
    /\ df_2h[1].battery_id = df_2h[2].battery_id
    /\ df_2h[1].ts[1] > df_2h[2].ts[1]
    /\ \E e \in Entries : \E r \in Range(e.g) : r.soc_drop = <<-20>>

\* C9: a battery with two buckets has its second bucket in the anomaly set
\* exactly when that bucket's soc_drop is below -15, and never its first; a
\* battery with one bucket has an empty anomaly set.
C9_OneDropOnlyHardThreshold ==
    ppc = "done" =>
        \A e \in Entries :
            /\ Len(e.g) = 1 => e.g_anom = <<>>
            /\ Len(e.g) = 2 =>
                   /\ e.g[1] \notin Range(e.g_anom)
                   /\ e.g[2].soc_drop # <<>>
                   /\ e.g[2] \in Range(e.g_anom) <=> e.g[2].soc_drop[1] < -15

\* C9 happens: one battery has two buckets with a drop of exactly -15 and
\* an empty anomaly set, the other has a single bucket.
C9_Witness ==
    /\ ppc = "done"
    /\ \E e, s \in Entries :
           /\ Len(e.g) = 2
           /\ e.g[2].soc_drop = <<-15>>
           /\ e.g_anom = <<>>
           /\ Len(s.g) = 1
           /\ s.g_anom = <<>>

----------------------------------------------------------------------------
(* Properties of call_groq_summary in main *)

\* C8: once main has reached call_groq_summary, whatever the requests'
\* outcomes, it comes to have called detect_anomalies with at most 5 requests
\* issued and a string returned as the summary.
C8_SummaryNeverBlocks ==
    ppc = "groq" ~>
        /\ ppc = "done"
        /\ requests <= 5
        /\ summary \in {"[Summary unavailable - missing API key]",
                        "[Summary unavailable]", "text"}

\* C8 happens: five requests failed, and detect_anomalies has been called.
C8_Witness ==
    /\ ppc = "done"
    /\ requests = 5
    /\ summary = "[Summary unavailable]"
    /\ attempt = 5

====
